---- MODULE Spec2Model ----
(***************************************************************************)
(* Session lifecycle of the browser-side AuthProvider                      *)
(* (src/frontend/src/contexts/AuthContext.jsx).                            *)
(*                                                                         *)
(* JavaScript runs every handler to its next `await` without interruption, *)
(* so one action is one run of code between two suspension points that     *)
(* touch the shared state (the React `user` state and the localStorage     *)
(* entry "token").  `await fetch(...)` followed by `await response.json()` *)
(* touches no shared state in between, so the arrival of a response and    *)
(* the parsing of its body are one step.                                   *)
(***************************************************************************)
EXTENDS Integers, Sequences, FiniteSets, TLC

\* Largest number of login calls, and of register calls, in flight at the
\* same time.
MaxLogins == 1

MaxRegisters == 1

Logins == 1..MaxLogins

Registers == 1..MaxRegisters

\* ---------------------------------------------------------------- values
\* localStorage.getItem("token") === null
NoToken == "<no token>"
Tokens == {"t1", "t2"}

\* useState(null): the identity is absent
Null == "<null>"
Users == {"u1", "u2"}

\* a property that is missing from a parsed JSON body (undefined)
Absent == "<undefined>"
\* `message` values a non-2xx body may carry
ServerMsgs == {Absent, "", "bad creds"}
\* `message` of the error a rejected fetch() carries
ThrownMsgs == {"", "Failed to fetch"}
\* `message` of the SyntaxError a rejected response.json() carries
ParseMsg == "Unexpected token"

NoRet == "<pending>"

\* ------------------------------------------------------------- responses
\* What the network hands back for one request: net = fetch() resolved,
\* ok = response.ok, parsable = response.json() resolves.
Resp(net, ok, parsable, message, tok, usr, err) ==
    [net |-> net, ok |-> ok, parsable |-> parsable, message |-> message,
     token |-> tok, user |-> usr, err |-> err]

NoResp == Resp(FALSE, FALSE, FALSE, Absent, NoToken, Null, "")

FailureResponses ==
    {Resp(FALSE, FALSE, FALSE, Absent, NoToken, Null, e) : e \in ThrownMsgs}
    \cup {Resp(TRUE, FALSE, FALSE, Absent, NoToken, Null, ParseMsg)}
    \cup {Resp(TRUE, FALSE, TRUE, m, NoToken, Null, "") : m \in ServerMsgs}
    \cup {Resp(TRUE, TRUE, FALSE, Absent, NoToken, Null, ParseMsg)}

\* POST /login: 2xx => { token }
LoginResponses ==
    FailureResponses
    \cup {Resp(TRUE, TRUE, TRUE, Absent, t, Null, "") : t \in Tokens}

\* GET /user/me: 2xx => { user }
MeResponses ==
    FailureResponses
    \cup {Resp(TRUE, TRUE, TRUE, Absent, NoToken, u, "") : u \in Users}

\* POST /register: 2xx => body ignored
RegisterResponses ==
    {r \in FailureResponses : ~(r.net /\ r.ok)}
    \cup {Resp(TRUE, TRUE, p, Absent, NoToken, Null, "") : p \in BOOLEAN}

\* ------------------------------------------------------- pure helpers
\* JavaScript `m || fallback` on a string-or-undefined m
OrElse(m, fallback) == IF m = Absent \/ m = "" THEN fallback ELSE m

ErrorBodyDropped(resp) == [message |-> Absent]

\* `await response.json().catch(() => ({}))`
ErrorBody(resp) ==
    IF resp.parsable THEN [message |-> resp.message] ELSE [message |-> Absent]

Returned(v) == [kind |-> "return", val |-> v]
Thrown(m) == [kind |-> "throw", val |-> m]

\* fetchCurrentUser(token), given what the network answers
FetchCurrentUser(resp) ==
    IF ~resp.net THEN Thrown(resp.err)
    ELSE IF ~resp.ok
         THEN Thrown(OrElse(ErrorBody(resp).message, "Failed to fetch user"))
    ELSE IF ~resp.parsable THEN Thrown(resp.err)
    ELSE Returned(resp.user)

\* ---------------------------------------------------------------- effects
\* What a handler does to the world, in the order it does it.
SetItem(t) == [eff |-> "setItem", val |-> t]

RemoveItem == [eff |-> "removeItem", val |-> NoToken]

SetUser(u) == [eff |-> "setUser", val |-> u]

Navigate(to) == [eff |-> "navigate", val |-> to]

Fetch(request) == [eff |-> "fetch", val |-> request]

Only(log, effs) == SelectSeq(log, LAMBDA e : e.eff \in effs)

WritesToken(log) == Only(log, {"setItem", "removeItem"}) # <<>>

\* the "token" entry after the effects of log, in order, on an entry cur
TokenAfter(log, cur) ==
    LET ws == Only(log, {"setItem", "removeItem"}) IN
    IF ws = <<>> THEN cur ELSE ws[Len(ws)].val

\* the `user` state after the effects of log, in order, on a state cur
UserAfter(log, cur) ==
    LET ws == Only(log, {"setUser"}) IN
    IF ws = <<>> THEN cur ELSE ws[Len(ws)].val

\* ---------------------------------------------------------------- strings
\* A string is the sequence of its pieces.  A piece is "/", " " (any
\* whitespace), "," or a chunk: a run of characters that holds no comma and
\* neither begins nor ends with a slash or whitespace.  trim(), the regular
\* expression /\/$/, split(",") and startsWith("/") only look at pieces.
MaxOriginLen == 3

MaxConfigLen == 3

MaxUrlLen == 3

MaxPathLen == 2

StringsUpTo(alphabet, n) == UNION {[1..k -> alphabet] : k \in 0..n}

\* a value that is not a string: a missing header, an unset variable
Undefined == <<"<undefined>">>

Falsy(s) == s = Undefined \/ s = <<>>

Whitespace == {" "}

\* String.prototype.trim
Trim(s) ==
    LET keep == {i \in 1..Len(s) : s[i] \notin Whitespace} IN
    IF keep = {} THEN <<>>
    ELSE SubSeq(s, CHOOSE i \in keep : \A j \in keep : i <= j,
                   CHOOSE i \in keep : \A j \in keep : i >= j)

\* .replace(/\/$/, ""): one slash at the very end is removed
StripSlash(s) ==
    IF s # <<>> /\ s[Len(s)] = "/" THEN SubSeq(s, 1, Len(s) - 1) ELSE s

\* String.prototype.split(",")
RECURSIVE Split(_)
Split(s) ==
    LET commas == {i \in 1..Len(s) : s[i] = ","} IN
    IF commas = {} THEN <<s>>
    ELSE LET k == CHOOSE i \in commas : \A j \in commas : i <= j IN
         <<SubSeq(s, 1, k - 1)>> \o Split(SubSeq(s, k + 1, Len(s)))

StartsWithSlash(s) == s # <<>> /\ s[1] = "/"

EndsWithSlash(s) == s # <<>> /\ s[Len(s)] = "/"

\* ------------------------------------------------------------- OriginGate
LocalDev == "http://localhost:5173"
AppOrigin == "http://app.example"
EvilOrigin == "http://evil.example"

DEFAULT_ALLOWED_ORIGINS ==
    << <<"http://localhost:5173">>, <<"http://127.0.0.1:5173">>,
       <<"http://localhost:4173">>, <<"http://127.0.0.1:4173">> >>

sanitizeOriginTrimOnly(o) == IF o = Undefined THEN <<>> ELSE Trim(o)

sanitizeOrigin(o) == IF o = Undefined THEN <<>> ELSE StripSlash(Trim(o))

configuredOriginsUnfiltered(cfg) ==
    LET parts == Split(IF Falsy(cfg) THEN <<>> ELSE cfg) IN
    [i \in 1..Len(parts) |-> sanitizeOrigin(parts[i])]

\* cfg is process.env.FRONTEND_URL
configuredOrigins(cfg) ==
    LET parts == Split(IF Falsy(cfg) THEN <<>> ELSE cfg)
        clean == [i \in 1..Len(parts) |-> sanitizeOrigin(parts[i])]
    IN SelectSeq(clean, LAMBDA o : Len(o) > 0)

defaultOrigins ==
    [i \in 1..Len(DEFAULT_ALLOWED_ORIGINS) |->
        sanitizeOrigin(DEFAULT_ALLOWED_ORIGINS[i])]

\* new Set([...defaultOrigins, ...configuredOrigins])
AllowedOrigins(cfg) ==
    LET all == defaultOrigins \o configuredOrigins(cfg) IN
    {all[i] : i \in 1..Len(all)}

AllowAllOrigins(cfg) == Len(configuredOrigins(cfg)) = 0

\* What the origin callback hands to cors: callback(err, allow).  cors
\* passes an error to next(err), so the routes mounted after it do not run.
Callback(err, allow) ==
    [kind |-> IF err = Null THEN "admit" ELSE "reject",
     error |-> err, allow |-> allow, routes |-> err = Null]

NoDecision == [kind |-> "none", error |-> Null, allow |-> FALSE,
               routes |-> FALSE]

OriginCallbackRaw(o, allowAll, allowed) ==
    IF Falsy(o) \/ allowAll \/ o \in allowed
    THEN Callback(Null, TRUE)
    ELSE Callback("Not allowed by CORS", FALSE)

\* origin: (origin, callback) => { ... }
OriginCallback(o, allowAll, allowed) ==
    LET n == sanitizeOrigin(o) IN
    IF Falsy(o) \/ allowAll \/ n \in allowed
    THEN Callback(Null, TRUE)
    ELSE Callback("Not allowed by CORS", FALSE)

\* FRONTEND_URL values: unset, or a string of up to MaxConfigLen pieces
ConfigInputs ==
    {Undefined} \cup StringsUpTo({",", "/", " ", AppOrigin}, MaxConfigLen)

\* Origin headers: missing, a default origin with or without a slash, or a
\* string of up to MaxOriginLen pieces
OriginInputs ==
    {Undefined, <<LocalDev>>, <<LocalDev, "/">>, <<EvilOrigin>>}
        \cup StringsUpTo({"/", " ", AppOrigin}, MaxOriginLen)

\* ---------------------------------------------------------- backend address
ApiBase == "http://api.example"

\* env is import.meta.env.VITE_BACKEND_URL, win is window.location.origin
\* (Undefined where there is no window)
resolveBackendUrl(env, win) ==
    IF ~Falsy(env) /\ Len(Trim(env)) > 0 THEN StripSlash(Trim(env))
    ELSE IF ~Falsy(win) THEN win
    ELSE <<"http://localhost:3000">>

buildApiUrlAlwaysSlash(base, p) == base \o <<"/">> \o p

\* base is BACKEND_URL
buildApiUrl(base, p) ==
    IF ~StartsWithSlash(p) THEN base \o <<"/">> \o p ELSE base \o p

EnvUrlInputs == {Undefined} \cup StringsUpTo({"/", " ", ApiBase}, MaxUrlLen)

WindowOrigins == {Undefined, <<LocalDev>>}

PathInputs == StringsUpTo({"/", "login"}, MaxPathLen)

\* ------------------------------------------------------------------ state
VARIABLES
    token,          \* localStorage entry "token"
    user,           \* React state `user`: the value last given to setUser
    restorePc,      \* mount effect: "notrun", "pending" (request in flight), "done"
    restoreTok,     \* `token` local of the mount effect
    isSubscribed,   \* `isSubscribed` local of the mount effect
    callPc,         \* per login call: "idle", "login_post", "login_me"
    callTok,        \* per login call: `token` local of login
    regPc,          \* per register call: "idle", "register_post"
    callOverlap,    \* history: the call started while the restore was pending
    last,           \* history: the step taken last and what it did
    lastAttempt,    \* history: outcome of the last completed identity resolution
    logoutSince,    \* history: a logout ran since that resolution completed
    tokWriter,      \* history: who wrote the "token" entry last
    overlapDone     \* history: an overlapping login completed before the restore

\* the server: src/backend/index.js
VARIABLES
    frontendUrl,        \* process.env.FRONTEND_URL at startup
    allowedOrigins,     \* const allowedOrigins
    allowAllOrigins,    \* const allowAllOrigins
    origin,             \* Origin header of the request handled last
    normalizedOrigin,   \* `normalizedOrigin` of that request
    decision            \* what the origin callback answered for it

\* the client's backend address
VARIABLES
    envUrl,             \* import.meta.env.VITE_BACKEND_URL
    windowOrigin,       \* window.location.origin
    BACKEND_URL,        \* const BACKEND_URL
    path,               \* argument of the last buildApiUrl call
    url                 \* what that call returned

sessionVars == <<token, user, restorePc, restoreTok, isSubscribed,
                 callPc, callTok, regPc, callOverlap, last, lastAttempt,
                 logoutSince, tokWriter, overlapDone>>

gateVars == <<frontendUrl, allowedOrigins, allowAllOrigins, origin,
              normalizedOrigin, decision>>

urlVars == <<envUrl, windowOrigin, BACKEND_URL, path, url>>

vars == <<sessionVars, gateVars, urlVars>>

\* op: the step; c: the call (0 for none); resp: the response it consumed;
\* settled/ret: how the call's promise settled ("pending" while it runs on);
\* tok: the call's `token` local; effects: what the step did, in order;
\* overlap: callOverlap of the call.
Event(op, c, resp, settled, ret, tok, effects, overlap) ==
    [op |-> op, c |-> c, resp |-> resp, settled |-> settled, ret |-> ret,
     tok |-> tok, effects |-> effects, overlap |-> overlap]

\* the session after a step by `who` that had the effects of log
Perform(log, who) ==
    /\ token' = TokenAfter(log, token)
    /\ user' = UserAfter(log, user)
    /\ tokWriter' = IF WritesToken(log) THEN who ELSE tokWriter

SessionInit ==
    /\ token \in Tokens \cup {NoToken}
    /\ user = Null
    /\ restorePc = "notrun"
    /\ restoreTok = NoToken
    /\ isSubscribed = TRUE
    /\ callPc = [c \in Logins |-> "idle"]
    /\ callTok = [c \in Logins |-> NoToken]
    /\ regPc = [c \in Registers |-> "idle"]
    /\ callOverlap = [c \in Logins |-> FALSE]
    /\ last = Event("init", 0, NoResp, "none", NoRet, NoToken, <<>>, FALSE)
    /\ lastAttempt = "none"
    /\ logoutSince = FALSE
    /\ tokWriter = "init"
    /\ overlapDone = FALSE

\* module load of the server with FRONTEND_URL = cfg; no request yet
GateStartup(cfg) ==
    /\ frontendUrl = cfg
    /\ allowedOrigins = AllowedOrigins(cfg)
    /\ allowAllOrigins = AllowAllOrigins(cfg)
    /\ origin = Undefined
    /\ normalizedOrigin = <<>>
    /\ decision = NoDecision

\* module load of the client; no URL built yet
UrlStartup(env, win) ==
    /\ envUrl = env
    /\ windowOrigin = win
    /\ BACKEND_URL = resolveBackendUrl(env, win)
    /\ path = Undefined
    /\ url = Undefined

\* The session starts against a server without FRONTEND_URL, from a page
\* served without VITE_BACKEND_URL.
Init ==
    /\ SessionInit
    /\ GateStartup(Undefined)
    /\ UrlStartup(Undefined, <<LocalDev>>)

\* ------------------------------------------------------------ the restore
RestoreBodyAlwaysFetches(t) == <<Fetch("GET /user/me")>>

\* body of the mount effect, given the token it read
RestoreBody(t) ==
    IF t = NoToken THEN <<SetUser(Null)>> ELSE <<Fetch("GET /user/me")>>

\* The mount effect: it runs in the commit of the first render, before any
\* event handler or network callback can run.
RestoreStart ==
    /\ restorePc = "notrun"
    /\ LET t == token
           log == RestoreBody(t)
       IN
       /\ Perform(log, "restore")
       /\ restoreTok' = t
       /\ restorePc' = IF t = NoToken THEN "done" ELSE "pending"
       /\ last' = Event(IF t = NoToken THEN "restoreNoToken" ELSE "restoreStart",
                        0, NoResp, "none", NoRet, NoToken, log, FALSE)
    /\ isSubscribed' = TRUE
    /\ UNCHANGED <<callPc, callTok, regPc, callOverlap, lastAttempt,
                   logoutSince, overlapDone>>
    /\ UNCHANGED <<gateVars, urlVars>>

RestoreThenDropped(sub, u) == <<>>

\* .then() of the mount effect
RestoreThen(sub, u) == IF sub THEN <<SetUser(u)>> ELSE <<>>

RestoreCatchKeepsToken(sub) == IF sub THEN <<SetUser(Null)>> ELSE <<>>

RestoreCatchUnguarded(sub) == <<RemoveItem, SetUser(Null)>>

\* .catch() of the mount effect
RestoreCatch(sub) == IF sub THEN <<RemoveItem, SetUser(Null)>> ELSE <<>>

RestoreDone(resp) ==
    /\ restorePc = "pending"
    /\ LET r == FetchCurrentUser(resp)
           ok == r.kind = "return"
           log == IF ok THEN RestoreThen(isSubscribed, r.val)
                  ELSE RestoreCatch(isSubscribed)
       IN
       /\ Perform(log, "restore")
       /\ lastAttempt' = IF ok THEN "ok" ELSE "fail"
       /\ last' = Event(IF ok THEN "restoreOk" ELSE "restoreFail",
                        0, resp, "none", NoRet, NoToken, log, FALSE)
    /\ restorePc' = "done"
    /\ logoutSince' = FALSE
    /\ UNCHANGED <<restoreTok, isSubscribed, callPc, callTok, regPc,
                   callOverlap, overlapDone>>
    /\ UNCHANGED <<gateVars, urlVars>>

\* The cleanup the mount effect returned (it returns one only when it read a
\* token); React runs it when the provider unmounts.
Teardown ==
    /\ restorePc # "notrun"
    /\ restoreTok # NoToken
    /\ isSubscribed
    /\ isSubscribed' = FALSE
    /\ last' = Event("teardown", 0, NoResp, "none", NoRet, NoToken, <<>>, FALSE)
    /\ UNCHANGED <<token, user, restorePc, restoreTok, callPc, callTok, regPc,
                   callOverlap, lastAttempt, logoutSince, tokWriter,
                   overlapDone>>
    /\ UNCHANGED <<gateVars, urlVars>>

\* The provider's operations are reachable by consumers once the mount
\* effect has run and until the provider is unmounted.
Exposed == restorePc # "notrun" /\ isSubscribed

\* ----------------------------------------------------------------- logout
LogoutBodyKeepsToken == <<SetUser(Null), Navigate("/")>>

LogoutBody == <<RemoveItem, SetUser(Null), Navigate("/")>>

Logout ==
    /\ Exposed
    /\ Perform(LogoutBody, "logout")
    /\ last' = Event("logout", 0, NoResp, "return", Absent, NoToken,
                     LogoutBody, FALSE)
    /\ logoutSince' = TRUE
    /\ UNCHANGED <<restorePc, restoreTok, isSubscribed, callPc, callTok,
                   regPc, callOverlap, lastAttempt, overlapDone>>
    /\ UNCHANGED <<gateVars, urlVars>>

\* ------------------------------------------------------------------ login
CallName(c) == ToString(c)

\* a new call takes the lowest free slot (the slots are interchangeable)
FreeSlot(pc, c) ==
    pc[c] = "idle" /\ \A d \in DOMAIN pc : d < c => pc[d] # "idle"

SettleStuck(c) == UNCHANGED <<callPc, callTok, callOverlap>>

\* the call's promise settles: its slot is free again
Settle(c) ==
    /\ callPc' = [callPc EXCEPT ![c] = "idle"]
    /\ callTok' = [callTok EXCEPT ![c] = NoToken]
    /\ callOverlap' = [callOverlap EXCEPT ![c] = FALSE]

\* login up to its first await
LoginBegin == <<Fetch("POST /login")>>

\* The credentials are opaque to the client; the server's answer is the
\* input of LoginPostDone.
LoginStart(c) ==
    /\ Exposed
    /\ FreeSlot(callPc, c)
    /\ Perform(LoginBegin, CallName(c))
    /\ callPc' = [callPc EXCEPT ![c] = "login_post"]
    /\ callOverlap' = [callOverlap EXCEPT ![c] = (restorePc = "pending")]
    /\ last' = Event("loginStart", c, NoResp, "pending", NoRet, NoToken,
                     LoginBegin, restorePc = "pending")
    /\ UNCHANGED <<restorePc, restoreTok, isSubscribed, callTok, regPc,
                   lastAttempt, logoutSince, overlapDone>>
    /\ UNCHANGED <<gateVars, urlVars>>

\* the try block of login from the POST's answer to the token
LoginPost(resp) ==
    IF ~resp.net THEN Thrown(resp.err)
    ELSE IF ~resp.ok
         THEN Returned(OrElse(ErrorBody(resp).message, "Failed to login"))
    ELSE IF ~resp.parsable THEN Thrown(resp.err)
    ELSE [kind |-> "continue", val |-> resp.token]

LoginCatchRethrown(r) == r

\* catch (error) { return error.message || "Failed to login"; }
LoginCatch(r) ==
    IF r.kind = "throw" THEN Returned(OrElse(r.val, "Failed to login")) ELSE r

\* login from the token to its second await
LoginStore(t) == <<SetItem(t), Fetch("GET /user/me")>>

LoginFinishNavigatesFirst(u) == <<Navigate("/profile"), SetUser(u)>>

\* login after fetchCurrentUser returned u
LoginFinish(u) == <<SetUser(u), Navigate("/profile")>>

\* login after fetchCurrentUser threw: the catch block only returns
LoginAbort == <<>>

LoginPostDone(c, resp) ==
    /\ callPc[c] = "login_post"
    /\ LET r == LoginCatch(LoginPost(resp))
           go == r.kind = "continue"
           log == IF go THEN LoginStore(r.val) ELSE <<>>
       IN
       /\ Perform(log, CallName(c))
       /\ IF go
          THEN /\ callTok' = [callTok EXCEPT ![c] = r.val]
               /\ callPc' = [callPc EXCEPT ![c] = "login_me"]
               /\ last' = Event("loginPostOk", c, resp, "pending", NoRet,
                                r.val, log, callOverlap[c])
               /\ UNCHANGED <<callOverlap, overlapDone>>
          ELSE /\ Settle(c)
               /\ last' = Event("loginPostFail", c, resp, r.kind, r.val,
                                NoToken, log, callOverlap[c])
               /\ overlapDone' =
                      (overlapDone \/ (callOverlap[c] /\ restorePc = "pending"))
    /\ UNCHANGED <<restorePc, restoreTok, isSubscribed, regPc, lastAttempt,
                   logoutSince>>
    /\ UNCHANGED <<gateVars, urlVars>>

LoginMeDone(c, resp) ==
    /\ callPc[c] = "login_me"
    /\ LET f == FetchCurrentUser(resp)
           ok == f.kind = "return"
           r == IF ok THEN Returned("") ELSE LoginCatch(f)
           log == IF ok THEN LoginFinish(f.val) ELSE LoginAbort
       IN
       /\ Perform(log, CallName(c))
       /\ lastAttempt' = IF ok THEN "ok" ELSE "fail"
       /\ last' = Event(IF ok THEN "loginMeOk" ELSE "loginMeFail", c, resp,
                        r.kind, r.val, callTok[c], log, callOverlap[c])
    /\ logoutSince' = FALSE
    /\ overlapDone' = (overlapDone \/ (callOverlap[c] /\ restorePc = "pending"))
    /\ Settle(c)
    /\ UNCHANGED <<restorePc, restoreTok, isSubscribed, regPc>>
    /\ UNCHANGED <<gateVars, urlVars>>

\* --------------------------------------------------------------- register
\* register up to its await
RegisterBegin == <<Fetch("POST /register")>>

\* userData is forwarded verbatim; the server's answer is the input of
\* RegisterDone.
RegisterStart(c) ==
    /\ Exposed
    /\ FreeSlot(regPc, c)
    /\ Perform(RegisterBegin, "register")
    /\ regPc' = [regPc EXCEPT ![c] = "register_post"]
    /\ last' = Event("registerStart", c, NoResp, "pending", NoRet, NoToken,
                     RegisterBegin, FALSE)
    /\ UNCHANGED <<restorePc, restoreTok, isSubscribed, callPc, callTok,
                   callOverlap, lastAttempt, logoutSince, overlapDone>>
    /\ UNCHANGED <<gateVars, urlVars>>

\* the try block of register
RegisterPost(resp) ==
    IF ~resp.net THEN Thrown(resp.err)
    ELSE IF ~resp.ok
         THEN Returned(OrElse(ErrorBody(resp).message, "Failed to register"))
    ELSE Returned("")

\* catch (error) { return error.message || "Failed to register"; }
RegisterCatch(r) ==
    IF r.kind = "throw" THEN Returned(OrElse(r.val, "Failed to register"))
    ELSE r

RegisterFinishSilent == <<>>

\* register after a 2xx answer
RegisterFinish == <<Navigate("/success")>>

RegisterDone(c, resp) ==
    /\ regPc[c] = "register_post"
    /\ LET r == RegisterCatch(RegisterPost(resp))
           ok == resp.net /\ resp.ok
           log == IF ok THEN RegisterFinish ELSE <<>>
       IN
       /\ Perform(log, "register")
       /\ last' = Event(IF ok THEN "registerOk" ELSE "registerFail", c, resp,
                        r.kind, r.val, NoToken, log, FALSE)
    /\ regPc' = [regPc EXCEPT ![c] = "idle"]
    /\ UNCHANGED <<restorePc, restoreTok, isSubscribed, callPc, callTok,
                   callOverlap, lastAttempt, logoutSince, overlapDone>>
    /\ UNCHANGED <<gateVars, urlVars>>

Next ==
    \/ RestoreStart
    \/ \E resp \in MeResponses : RestoreDone(resp)
    \/ Teardown
    \/ Logout
    \/ \E c \in Logins : LoginStart(c)
    \/ \E c \in Logins, resp \in LoginResponses : LoginPostDone(c, resp)
    \/ \E c \in Logins, resp \in MeResponses : LoginMeDone(c, resp)
    \/ \E c \in Registers : RegisterStart(c)
    \/ \E c \in Registers, resp \in RegisterResponses : RegisterDone(c, resp)

Spec == Init /\ [][Next]_vars

\* The restore and login calls alone: no logout, no register, no teardown.
NextRace ==
    \/ RestoreStart
    \/ \E resp \in MeResponses : RestoreDone(resp)
    \/ \E c \in Logins : LoginStart(c)
    \/ \E c \in Logins, resp \in LoginResponses : LoginPostDone(c, resp)
    \/ \E c \in Logins, resp \in MeResponses : LoginMeDone(c, resp)

SpecRace == Init /\ [][NextRace]_vars

\* The restore, login and logout: no register, no teardown.
NextSession ==
    \/ NextRace
    \/ Logout

SpecSession == Init /\ [][NextSession]_vars

\* Every request the client issued is answered or fails: the callback of a
\* pending fetch eventually runs. Nothing obliges a consumer to call login,
\* register or logout, nor the provider to unmount.
Fairness ==
    /\ WF_vars(RestoreStart)
    /\ WF_vars(\E resp \in MeResponses : RestoreDone(resp))
    /\ \A c \in Logins :
           /\ WF_vars(\E resp \in LoginResponses : LoginPostDone(c, resp))
           /\ WF_vars(\E resp \in MeResponses : LoginMeDone(c, resp))
    /\ \A c \in Registers :
           WF_vars(\E resp \in RegisterResponses : RegisterDone(c, resp))

FairSpec == Init /\ [][Next]_vars /\ Fairness

\* --------------------------------------------------- the gate, per request
\* One request with Origin header o goes through the cors middleware.
Request(o) ==
    /\ origin' = o
    /\ normalizedOrigin' = sanitizeOrigin(o)
    /\ decision' = OriginCallback(o, allowAllOrigins, allowedOrigins)
    /\ UNCHANGED <<frontendUrl, allowedOrigins, allowAllOrigins>>
    /\ UNCHANGED <<sessionVars, urlVars>>

\* the server started under any configuration
InitGate ==
    /\ SessionInit /\ token = NoToken
    /\ \E cfg \in ConfigInputs : GateStartup(cfg)
    /\ UrlStartup(Undefined, <<LocalDev>>)

NextGate == \E o \in OriginInputs : Request(o)

SpecGate == InitGate /\ [][NextGate]_vars

\* ------------------------------------------------------ the URLs, per call
BuildApiUrl(p) ==
    /\ path' = p
    /\ url' = buildApiUrl(BACKEND_URL, p)
    /\ UNCHANGED <<envUrl, windowOrigin, BACKEND_URL>>
    /\ UNCHANGED <<sessionVars, gateVars>>

\* the client loaded under any configuration
InitUrl ==
    /\ SessionInit /\ token = NoToken
    /\ GateStartup(Undefined)
    /\ \E env \in EnvUrlInputs, win \in WindowOrigins : UrlStartup(env, win)

NextUrl == \E p \in PathInputs : BuildApiUrl(p)

SpecUrl == InitUrl /\ [][NextUrl]_vars

\* ------------------------------------------------------------- properties
\* C1: while the provider is mounted, the identity is non-absent if and only
\* if the last completed identity resolution (by login or by the restore)
\* succeeded and no logout ran since it completed.
C1_IdentityIffLastResolutionOk ==
    isSubscribed =>
        ((user # Null) <=> (lastAttempt = "ok" /\ ~logoutSince))

\* C2: when a login overlaps the pending restore, then once both have
\* completed the session is the outcome of the one that completed later:
\* login's user and login's token if login completed later and succeeded,
\* the restore's outcome (its user and its token, or no identity and no
\* token) if the restore completed later.
C2_LaterCompletionWins ==
    /\ (last.op = "loginMeOk" /\ last.overlap /\ restorePc = "done")
           => (user = last.resp.user /\ token = last.tok)
    /\ (last.op = "restoreOk" /\ isSubscribed /\ overlapDone)
           => (user = last.resp.user /\ token = restoreTok)
    /\ (last.op = "restoreFail" /\ isSubscribed /\ overlapDone)
           => (user = Null /\ token = NoToken)

CarriesMessage(resp) ==
    resp.parsable /\ resp.message # Absent /\ resp.message # ""

\* C4: a login whose POST answers non-2xx returns the body's message, or
\* "Failed to login" when the body carries none; the call did nothing but
\* issue the POST: no write of the identity or of the "token" entry, no
\* identity-resolution request, no navigation.
C4_LoginRejected ==
    /\ last.op = "loginStart" => last.effects = <<Fetch("POST /login")>>
    /\ (last.op = "loginPostFail" /\ last.resp.net /\ ~last.resp.ok) =>
           /\ last.settled = "return"
           /\ last.ret = IF CarriesMessage(last.resp)
                         THEN last.resp.message
                         ELSE "Failed to login"
           /\ last.effects = <<>>

C4_Witness ==
    /\ last.op = "loginPostFail"
    /\ last.resp.net
    /\ ~last.resp.ok
    /\ last.ret = "bad creds"
    /\ last.effects = <<>>
    /\ user \in Users
    /\ token \in Tokens

\* C5: when the restore's identity resolution fails and the provider is
\* still mounted, the restore ends with no identity and no stored token.
C5_RestoreFailureClears ==
    (last.op = "restoreFail" /\ isSubscribed) =>
        (user = Null /\ token = NoToken /\ restorePc = "done")

C5_Witness ==
    /\ last.op = "restoreFail"
    /\ isSubscribed
    /\ restoreTok \in Tokens
    /\ last.resp.net
    /\ last.resp.ok
    /\ ~last.resp.parsable
    /\ token = NoToken

C7_FailedResolutionDeletesToken ==
    (\/ (last.op = "restoreFail" /\ isSubscribed)
     \/ last.op = "loginMeFail")
        => token = NoToken

CompletionOps ==
    {"loginPostFail", "loginMeFail", "loginMeOk", "registerOk", "registerFail"}

\* C8: every login and register call settles by returning a string, never
\* by throwing; the string is empty exactly when the operation succeeded.
C8_AlwaysReturnsString ==
    last.op \in CompletionOps =>
        /\ last.settled = "return"
        /\ last.ret \notin {NoRet, Absent}
        /\ (last.ret = "") <=> (last.op \in {"loginMeOk", "registerOk"})

C8_Witness ==
    /\ last.op = "loginMeFail"
    /\ last.settled = "return"
    /\ ~last.resp.net
    /\ last.resp.err = ""
    /\ last.ret = "Failed to login"

\* C9: from every state logout removes the token, then sets the identity to
\* absent, then navigates to "/", issues no request and returns normally;
\* whatever the state before, and so also after a first logout, it ends
\* with no token and no identity.
C9_Logout ==
    last.op = "logout" =>
        /\ last.effects = <<RemoveItem, SetUser(Null), Navigate("/")>>
        /\ last.settled = "return"
        /\ token = NoToken
        /\ user = Null

C9_Witness ==
    /\ last.op = "logout"
    /\ lastAttempt = "ok"
    /\ logoutSince
    /\ token = NoToken
    /\ user = Null

\* C10: once the provider is torn down, the completion of the restore's
\* request, successful or not, changes neither the identity nor the token.
C10_NoWriteAfterTeardown ==
    [][ (last'.op \in {"restoreOk", "restoreFail"} /\ ~isSubscribed) =>
            (last'.effects = <<>> /\ user' = user /\ token' = token)
      ]_vars

C10_Witness ==
    /\ last.op = "restoreFail"
    /\ ~isSubscribed
    /\ restorePc = "done"
    /\ token = restoreTok
    /\ token \in Tokens

C14_RestoreWithoutToken ==
    last.op = "restoreNoToken" =>
        /\ last.effects = <<SetUser(Null)>>
        /\ restorePc = "done"
        /\ user = Null
        /\ token = NoToken

C14_Witness ==
    /\ last.op = "restoreNoToken"
    /\ restoreTok = NoToken
    /\ restorePc = "done"
    /\ user = Null
    /\ token = NoToken

\* C17: upon success register navigates to "/".
C17_RegisterNavigatesToRoot ==
    last.op = "registerOk" => last.effects = <<Navigate("/")>>

\* no restore, login or register request is in flight
Quiescent ==
    /\ restorePc # "pending"
    /\ \A c \in Logins : callPc[c] = "idle"
    /\ \A c \in Registers : regPc[c] = "idle"

\* C18: in every quiescent state a non-absent identity implies a stored
\* token.
C18_IdentityImpliesToken ==
    Quiescent => (user # Null => token # NoToken)

\* C19: a token stored by a login call is removed only by a logout.
C19_LoginTokenRemovedOnlyByLogout ==
    [][ (tokWriter \in {CallName(c) : c \in Logins}
         /\ token \in Tokens /\ token' = NoToken)
            => last'.op = "logout"
      ]_vars

\* C20: when every issued request is eventually answered or fails, every
\* started restore, login and register eventually completes, whatever the
\* other operations do meanwhile.
C20_EveryOperationCompletes ==
    /\ (restorePc = "pending") ~> (restorePc = "done")
    /\ \A c \in Logins : (callPc[c] # "idle") ~> (callPc[c] = "idle")
    /\ \A c \in Registers : (regPc[c] # "idle") ~> (regPc[c] = "idle")

C20_Witness ==
    /\ last.op \in {"loginMeOk", "loginMeFail"}
    /\ last.settled = "return"
    /\ callPc[last.c] = "idle"
    /\ Quiescent
    /\ restoreTok # NoToken

\* what the gate owes a request, given what counts as "no Origin header"
GateContract(noHeader) ==
    decision.kind # "none" =>
        IF noHeader \/ allowAllOrigins
              \/ StripSlash(Trim(origin)) \in allowedOrigins
        THEN decision.kind = "admit" /\ decision.routes
        ELSE /\ decision.kind = "reject"
             /\ decision.error = "Not allowed by CORS"
             /\ ~decision.routes

\* C12: the gate admits a request if and only if it has no Origin header,
\* or the gate is in allow-all mode, or the Origin, trimmed and with one
\* trailing slash stripped, is in the allow set; every other request is
\* rejected with "Not allowed by CORS" and does not reach the routes.
C12_AdmitsIffNoHeader ==
    /\ allowedOrigins = AllowedOrigins(frontendUrl)
    /\ GateContract(origin = Undefined)

\* C12, amended: an Origin header that is present but empty counts as no
\* header.
C12_AdmitsIffNoOrEmptyHeader ==
    /\ allowedOrigins = AllowedOrigins(frontendUrl)
    /\ GateContract(origin = Undefined \/ origin = <<>>)

C12_Witness ==
    /\ ~allowAllOrigins
    /\ frontendUrl = <<AppOrigin, "/">>
    /\ origin = <<EvilOrigin>>
    /\ decision.kind = "reject"
    /\ decision.error = "Not allowed by CORS"

\* C13: the gate is in allow-all mode exactly when every comma-separated
\* entry of the configured list normalizes to the empty string; in that mode
\* every request is admitted whatever its Origin; no request changes the
\* mode or the allow set.
C13_AllowAllMode ==
    [][ /\ allowAllOrigins' = allowAllOrigins
        /\ allowedOrigins' = allowedOrigins
        /\ LET entries == Split(IF Falsy(frontendUrl) THEN <<>>
                                ELSE frontendUrl)
           IN allowAllOrigins <=>
                  \A i \in 1..Len(entries) :
                      StripSlash(Trim(entries[i])) = <<>>
        /\ allowAllOrigins => (decision'.kind = "admit" /\ decision'.routes)
      ]_vars

C13_Witness ==
    /\ frontendUrl = <<",", " ", "/">>
    /\ allowAllOrigins
    /\ origin = <<AppOrigin, "/", "/">>
    /\ decision.kind = "admit"

\* the URL u joins base and path p with exactly one slash between them
OneSlashBetween(base, p, u) ==
    LET rest == IF StartsWithSlash(p) THEN Tail(p) ELSE p IN
    /\ u = base \o <<"/">> \o rest
    /\ ~EndsWithSlash(base)
    /\ ~StartsWithSlash(rest)

\* C15: for every resolved backend base and every path, the URL buildApiUrl
\* returns has exactly one slash between the base and the path.
C15_ExactlyOneSlash ==
    url # Undefined => OneSlashBetween(BACKEND_URL, path, url)

\* C15, amended: so it is when the configured URL, once trimmed, ends in at
\* most one slash and the path begins with at most one slash.
C15_ExactlyOneSlashForSingleSlashes ==
    LET t == IF Falsy(envUrl) THEN <<>> ELSE Trim(envUrl) IN
    (/\ url # Undefined
     /\ ~(Len(t) >= 2 /\ t[Len(t)] = "/" /\ t[Len(t) - 1] = "/")
     /\ ~(Len(path) >= 2 /\ path[1] = "/" /\ path[2] = "/"))
        => OneSlashBetween(BACKEND_URL, path, url)

C15_Witness ==
    /\ envUrl = <<" ", ApiBase, "/">>
    /\ BACKEND_URL = <<ApiBase>>
    /\ path = <<"/", "login">>
    /\ url = <<ApiBase, "/", "login">>

\* C16: normalizing a normalized origin changes nothing, and an origin with
\* a trailing slash normalizes as the same origin without it.
C16_Idempotent ==
    (decision.kind # "none" /\ origin # Undefined) =>
        /\ sanitizeOrigin(normalizedOrigin) = normalizedOrigin
        /\ sanitizeOrigin(origin \o <<"/">>) = normalizedOrigin

\* C16, amended: normalization is idempotent on every string whose trimmed
\* form does not end in a slash preceded by a slash or by whitespace; a
\* string that ends neither in a slash nor in whitespace normalizes as that
\* string followed by a slash.
C16_IdempotentOnSingleSlash ==
    (decision.kind # "none" /\ origin # Undefined) =>
        LET t == Trim(origin) IN
        /\ ~(/\ Len(t) >= 2
             /\ t[Len(t)] = "/"
             /\ t[Len(t) - 1] \in {"/"} \cup Whitespace)
               => sanitizeOrigin(normalizedOrigin) = normalizedOrigin
        /\ (origin = <<>>
               \/ origin[Len(origin)] \notin {"/"} \cup Whitespace)
               => sanitizeOrigin(origin \o <<"/">>) = normalizedOrigin

C16_Witness ==
    /\ origin = <<" ", AppOrigin, "/">>
    /\ normalizedOrigin = <<AppOrigin>>
    /\ sanitizeOrigin(normalizedOrigin) = <<AppOrigin>>
    /\ sanitizeOrigin(<<" ", AppOrigin>>) = sanitizeOrigin(origin)

====
